---- MODULE Spec2Model ----
(***************************************************************************)
(* Model of src/src/index.ts (MonoMongo / MonoConnect).                    *)
(*                                                                         *)
(* Strings are sequences of Unicode code points (scalar values), so that   *)
(* encodeURIComponent, template literals and number formatting are         *)
(* computed character by character.  Ill-formed UTF-16 (a lone surrogate)  *)
(* is not a sequence of characters and is outside the modelled inputs.     *)
(***************************************************************************)
EXTENDS Integers, Sequences, FiniteSets, TLC

VARIABLES
  database,        \* argument of the getDBPath call under study
  path,            \* its result: [done, value]
  conns,           \* connection objects made by mongoose.createConnection, in order
  defaultConn,     \* mongoose's default connection, the one mongoose.connect opens
  sigintHandlers,  \* listeners of process "SIGINT", in registration order
  calls,           \* one record per MonoMongo.connect invocation
  proc,            \* the Node process: [status, code]
  lastJob          \* the job the event loop ran last, with the effects it performed

vars == <<database, path, conns, defaultConn, sigintHandlers, calls, proc, lastJob>>
pathVars == <<database, path>>
lifeVars == <<conns, defaultConn, sigintHandlers, calls, proc, lastJob>>

(* ------------------------------ bounds --------------------------------- *)
\* longest username and longest password drawn for getDBPath
MaxUserLen == 1
MaxPassLen == 2
\* most MonoMongo.connect invocations in one process
MaxCalls == 2

(* --------------------------- JavaScript values ------------------------- *)
Undefined == [t |-> "undefined"]
NaN == [t |-> "NaN"]
Str(s) == [t |-> "string", s |-> s]
Num(n) == [t |-> "number", n |-> n]
Obj(o) == [t |-> "object", o |-> o]

\* typeof v === "string"
IsString(v) == v.t = "string"

\* k in o
In(k, o) == k \in DOMAIN o

\* o.k, as destructuring reads it: undefined when the property is missing
Get(o, k) == IF In(k, o) THEN o[k] ELSE Undefined

\* ToBoolean
Truthy(v) ==
  CASE v.t = "undefined" -> FALSE
    [] v.t = "NaN" -> FALSE
    [] v.t = "number" -> v.n # 0
    [] v.t = "string" -> Len(v.s) > 0
    [] OTHER -> TRUE

\* a || b
Or(a, b) == IF Truthy(a) THEN a ELSE b

RECURSIVE Digits(_)
\* decimal digits of a natural number, most significant first
Digits(n) == IF n < 10 THEN <<48 + n>> ELSE Append(Digits(n \div 10), 48 + (n % 10))

\* Number::toString for integers
NumberToString(n) == IF n < 0 THEN <<45>> \o Digits(0 - n) ELSE Digits(n)

\* ToString, as a template literal applies it to ${v}
TemplateString(v) ==
  CASE v.t = "string" -> v.s
    [] v.t = "number" -> NumberToString(v.n)
    [] v.t = "NaN" -> <<78, 97, 78>>
    [] OTHER -> <<117, 110, 100, 101, 102, 105, 110, 101, 100>>  \* "undefined"

(* --------------------------- encodeURIComponent ------------------------ *)
\* uriUnreserved: A-Z a-z 0-9 - _ . ! ~ * ' ( )
uriUnreserved ==
  (65..90) \cup (97..122) \cup (48..57) \cup {45, 95, 46, 33, 126, 42, 39, 40, 41}

\* UTF-8 octets of one code point
UTF8(cp) ==
  IF cp < 128 THEN <<cp>>
  ELSE IF cp < 2048 THEN <<192 + (cp \div 64), 128 + (cp % 64)>>
  ELSE IF cp < 65536 THEN
    <<224 + (cp \div 4096), 128 + ((cp \div 64) % 64), 128 + (cp % 64)>>
  ELSE <<240 + (cp \div 262144), 128 + ((cp \div 4096) % 64),
         128 + ((cp \div 64) % 64), 128 + (cp % 64)>>

\* upper-case hexadecimal digit
HexDigit(d) == IF d < 10 THEN 48 + d ELSE 55 + d

\* "%XY" of one octet
PercentOctet(b) == <<37, HexDigit(b \div 16), HexDigit(b % 16)>>

RECURSIVE PercentOctets(_)
PercentOctets(bs) ==
  IF bs = <<>> THEN <<>> ELSE PercentOctet(Head(bs)) \o PercentOctets(Tail(bs))

\* uriReserved plus "#": what encodeURI, unlike encodeURIComponent, leaves raw
uriReservedHash == {59, 47, 63, 58, 64, 38, 61, 43, 36, 44, 35}

\* one character of encodeURI (the wrong encoder for a URI component)
EncodeCharURI(cp) ==
  IF cp \in uriUnreserved \cup uriReservedHash THEN <<cp>> ELSE PercentOctets(UTF8(cp))

\* one character of Encode
EncodeChar(cp) == IF cp \in uriUnreserved THEN <<cp>> ELSE PercentOctets(UTF8(cp))

RECURSIVE Encode(_)
Encode(s) == IF s = <<>> THEN <<>> ELSE EncodeChar(Head(s)) \o Encode(Tail(s))

encodeURIComponent(v) == Encode(TemplateString(v))

(* ------------------------------ getDBPath ------------------------------ *)
DefaultPort == 27017

SrvScheme == <<109, 111, 110, 103, 111, 100, 98, 43, 115, 114, 118, 58, 47, 47>>  \* "mongodb+srv://"
SrvQuery ==
  <<63, 114, 101, 116, 114, 121, 87, 114, 105, 116, 101, 115, 61, 116, 114, 117, 101,
    38, 119, 61, 109, 97, 106, 111, 114, 105, 116, 121>>  \* "?retryWrites=true&w=majority"
LocalScheme == <<109, 111, 110, 103, 111, 100, 98, 58, 47, 47>>  \* "mongodb://"

\* the local branch with the port used as given (no default)
LocalPathNoDefault(o) ==
  LocalScheme \o TemplateString(Get(o, "hostname")) \o <<58>>
    \o TemplateString(Get(o, "port")) \o <<47>> \o TemplateString(Get(o, "dbname"))

\* `mongodb://${hostname}:${port || 27017}/${dbname}`
LocalPath(o) ==
  LocalScheme \o TemplateString(Get(o, "hostname")) \o <<58>>
    \o TemplateString(Or(Get(o, "port"), Num(DefaultPort))) \o <<47>>
    \o TemplateString(Get(o, "dbname"))

\* `mongodb+srv://${user}:${pass}@${cluster}/${dbname}?retryWrites=true&w=majority`
RemotePath(o) ==
  SrvScheme \o encodeURIComponent(Get(o, "username")) \o <<58>>
    \o encodeURIComponent(Get(o, "password")) \o <<64>>
    \o TemplateString(Get(o, "cluster")) \o <<47>> \o TemplateString(Get(o, "dbname")) \o SrvQuery

\* getDBPath escaping a raw string as it escapes credentials
getDBPathEscaped(db) ==
  IF IsString(db) THEN Encode(db.s)
  ELSE IF In("cluster", db.o) THEN RemotePath(db.o)
  ELSE LocalPath(db.o)

getDBPath(db) ==
  IF IsString(db) THEN db.s
  ELSE IF In("cluster", db.o) THEN RemotePath(db.o)
  ELSE LocalPath(db.o)

(* ------------------- getDBPath as a call on its own -------------------- *)
\* characters of the drawn credentials: a, !, %, /, :, @, e-acute, euro sign,
\* grinning face (1, 2, 3 and 4 UTF-8 octets; unreserved, mark and reserved)
Alphabet == {97, 33, 37, 47, 58, 64, 233, 8364, 128512}

\* strings over Alphabet of length at most n
StringsUpTo(n) == UNION {[1..k -> Alphabet] : k \in 0..n}

UserNames == StringsUpTo(MaxUserLen)
Passwords == StringsUpTo(MaxPassLen)

Text(s) == Str(s)

\* "cluster0.example.net", "c", "mydatabase"-like values, kept short
Clusters == {<<99, 48, 46, 110, 101, 116>>, <<>>}
DbNames == {<<100, 98>>, <<100, 47, 98>>}
HostNames == {<<108, 111, 99, 97, 108, 104, 111, 115, 116>>, <<49, 48, 46, 48, 46, 48, 46, 49>>}
Ports == {Undefined, NaN, Num(0), Num(1), Num(80), Num(27017), Num(27018), Num(65535)}

RemoteConfigs ==
  {Obj([username |-> Text(u), password |-> Text(p), cluster |-> Text(c), dbname |-> Text(d)]) :
     u \in UserNames, p \in Passwords, c \in Clusters, d \in {<<100, 98>>}}

\* a remote configuration that carries local fields as well
MixedConfigs ==
  {Obj([username |-> Text(u), password |-> Text(u), cluster |-> Text(c), dbname |-> Text(d),
        hostname |-> Text(h), port |-> Num(80)]) :
     u \in UserNames, c \in Clusters, d \in DbNames, h \in HostNames}

LocalConfigs ==
  {Obj([hostname |-> Text(h), port |-> p, dbname |-> Text(d)]) :
     h \in HostNames, p \in Ports, d \in DbNames}
  \cup {Obj([hostname |-> Text(h), dbname |-> Text(d)]) : h \in HostNames, d \in DbNames}

RawStrings == {Str(s) : s \in Passwords} \cup {Str(LocalScheme \o h) : h \in HostNames}

PathInputs == RemoteConfigs \cup MixedConfigs \cup LocalConfigs \cup RawStrings

NoPath == [done |-> FALSE, value |-> <<>>]

(* ------------------------- connection options -------------------------- *)
connectDefault ==
  Obj([autoCreate |-> TRUE, autoIndex |-> FALSE, connectTimeoutMS |-> 30000,
       socketTimeoutMS |-> 45000, family |-> 4])

\* exect's option with the supplied fields laid over the defaults
ExectOptionMerged(connectOptions) ==
  IF Truthy(connectOptions)
  THEN Obj([k \in DOMAIN connectOptions.o \cup DOMAIN connectDefault.o |->
              IF k \in DOMAIN connectOptions.o THEN connectOptions.o[k] ELSE connectDefault.o[k]])
  ELSE connectDefault

\* connectOptions || connectDefault
ExectOption(connectOptions) == Or(connectOptions, connectDefault)

(* ------------------------------- effects ------------------------------- *)
\* One call a job makes on the external client, the process or the console.
\*   op    which call            conn  the connection object it is made on (0: the default one)
\*   ev    event name            uri   URI or url argument
\*   opt   options argument      err   error value         code  exit status
Eff(op, conn, ev, uri, opt, err, code) ==
  [op |-> op, conn |-> conn, ev |-> ev, uri |-> uri, opt |-> opt, err |-> err, code |-> code]

CreateConnection(id, uri, opt) == Eff("createConnection", id, "", uri, opt, "", 0)
On(id, ev, url) == Eff("on", id, ev, url, Undefined, "", 0)
ProcessOn(ev, id) == Eff("process.on", id, ev, <<>>, Undefined, "", 0)
MongooseConnect(uri, opt) == Eff("mongoose.connect", 0, "", uri, opt, "", 0)
ConsoleInfo(id, ev, url) == Eff("console.info", id, ev, url, Undefined, "", 0)
ConsoleLog(id, ev) == Eff("console.log", id, ev, <<>>, Undefined, "", 0)
ConsoleError(id, err) == Eff("console.error", id, "error", <<>>, Undefined, err, 0)
Throw(id, err) == Eff("throw", id, "error", <<>>, Undefined, err, 0)
Close(id, force) == Eff("close", id, IF force THEN "force" ELSE "", <<>>, Undefined, "", 0)
ProcessExit(code) == Eff("process.exit", 0, "", <<>>, Undefined, "", code)

\* the calls after which the running job does not continue
Ends(e) == e.op \in {"process.exit", "throw"}

RECURSIVE Executed(_)
\* what a job gets to do of the calls it is written to make
Executed(es) ==
  IF es = <<>> THEN <<>>
  ELSE IF Ends(Head(es)) THEN <<Head(es)>>
  ELSE <<Head(es)>> \o Executed(Tail(es))

(* ------------------------------ MonoConnect ---------------------------- *)
\* the "connected" observer
OnConnected(id, url) == <<ConsoleInfo(id, "connected", url)>>

\* an "error" observer that only logs
OnErrorSwallowed(id, err) == <<ConsoleError(id, err)>>

\* the "error" observer
OnError(id, err) == <<ConsoleError(id, err), Throw(id, err)>>

\* the "disconnected" observer
OnDisconnected(id) == <<ConsoleInfo(id, "disconnected", <<>>)>>

\* the "open" observer
OnOpen(id) == <<ConsoleLog(id, "open")>>

\* a SIGINT listener that leaves before it closes
OnSigintExitFirst(id) == <<ProcessExit(0), Close(id, TRUE), ConsoleLog(id, "SIGINT")>>

\* the process "SIGINT" listener
OnSigint(id) == <<Close(id, TRUE), ConsoleLog(id, "SIGINT"), ProcessExit(0)>>

\* setupConnectionEvents that registers the process listener only for the first connection
setupConnectionEventsOnce(id, url) ==
  <<On(id, "connected", url), On(id, "error", url), On(id, "disconnected", url),
    On(id, "open", url)>> \o (IF id = 1 THEN <<ProcessOn("SIGINT", id)>> ELSE <<>>)

\* setupConnectionEvents; url is this.url, which the observers close over
setupConnectionEvents(id, url) ==
  <<On(id, "connected", url), On(id, "error", url), On(id, "disconnected", url),
    On(id, "open", url), ProcessOn("SIGINT", id)>>

\* new MonoConnect(url, connection)
MonoConnect(url, id) == setupConnectionEvents(id, url)

\* MonoConnect.connect(Options)
MonoConnect_connect(url, Options) == <<MongooseConnect(url, Options)>>

\* MonoMongo.connect that asks for the connection before it observes it
MonoMongo_connectLate(dbpath, option, id) ==
  <<CreateConnection(id, dbpath, option)>>
    \o MonoConnect_connect(dbpath, option) \o MonoConnect(dbpath, id)

\* MonoMongo.connect(dbpath, option); id names the connection object it creates
MonoMongo_connect(dbpath, option, id) ==
  <<CreateConnection(id, dbpath, option)>>
    \o MonoConnect(dbpath, id) \o MonoConnect_connect(dbpath, option)

\* MonoMongo.exect({database, connectOptions})
exect(db, connectOptions, id) ==
  MonoMongo_connect(getDBPath(db), ExectOption(connectOptions), id)

(* ---------------------- the effects on the state ----------------------- *)
NewConn == [url |-> <<>>, listeners |-> {}, state |-> "connecting", closed |-> FALSE]

ConnStep(cs, e) ==
  CASE e.op = "createConnection" -> Append(cs, NewConn)
    [] e.op = "on" -> [cs EXCEPT ![e.conn].listeners = @ \cup {e.ev}, ![e.conn].url = e.uri]
    [] e.op = "close" -> [cs EXCEPT ![e.conn].closed = TRUE]
    [] OTHER -> cs

RECURSIVE ConnsAfter(_, _)
ConnsAfter(cs, es) == IF es = <<>> THEN cs ELSE ConnsAfter(ConnStep(cs, Head(es)), Tail(es))

\* the effects of es that are calls of op
Select(es, op) == SelectSeq(es, LAMBDA e : e.op = op)

Count(es, op) == Len(Select(es, op))

\* the connection objects the effects name, in order
ConnOf(es) == [i \in 1..Len(es) |-> es[i].conn]

SigintAfter(hs, es) == hs \o ConnOf(Select(es, "process.on"))

\* mongoose.connect opens the default connection unless it is opening or open already
DefaultAfter(d, es) ==
  IF Count(es, "mongoose.connect") = 0 THEN d
  ELSE [d EXCEPT !.state = IF @ = "disconnected" THEN "connecting" ELSE @,
                 !.connectCalls = @ + Count(es, "mongoose.connect")]

\* the process after a job: process.exit ends it with the given status; a throw out
\* of a listener is an uncaught exception unless the embedding program handles it
ProcAfter(es, handled) ==
  IF es # <<>> /\ es[Len(es)].op = "process.exit"
    THEN [status |-> "exited", code |-> es[Len(es)].code]
  ELSE IF es # <<>> /\ es[Len(es)].op = "throw" /\ ~handled
    THEN [status |-> "crashed", code |-> 1]
  ELSE proc

Job(kind, db, opt, id, ev, err, observed, es) ==
  [kind |-> kind, database |-> db, connectOptions |-> opt, conn |-> id, ev |-> ev,
   err |-> err, observed |-> observed, effects |-> es]

\* run the effects es as one job of the event loop, on the connection objects cs
Run(job, es, handled, cs) ==
  /\ conns' = ConnsAfter(cs, es)
  /\ sigintHandlers' = SigintAfter(sigintHandlers, es)
  /\ defaultConn' = DefaultAfter(defaultConn, es)
  /\ proc' = ProcAfter(es, handled)
  /\ lastJob' = [job EXCEPT !.effects = es]

(* ------------------------------- the state ----------------------------- *)
NoJob == Job("none", Undefined, Undefined, 0, "", "", FALSE, <<>>)

LifeInit ==
  /\ conns = <<>>
  /\ defaultConn = [state |-> "disconnected", connectCalls |-> 0]
  /\ sigintHandlers = <<>>
  /\ calls = <<>>
  /\ proc = [status |-> "running", code |-> 0]
  /\ lastJob = NoJob

Init ==
  /\ database = Undefined
  /\ path = NoPath
  /\ LifeInit

\* what the caller supplies to exect and connect
EmptyObject == [k \in {} |-> 0]
Databases ==
  {Str(<<>>), Str(<<110, 111, 32, 117, 114, 105>>),
   Obj([username |-> Str(<<117, 64>>), password |-> Str(<<112, 47, 58>>),
        cluster |-> Str(<<99, 48>>), dbname |-> Str(<<100, 98>>)])}
SuppliedOptions ==
  {Obj(EmptyObject), Obj([autoIndex |-> TRUE]), Obj([family |-> 6, maxPoolSize |-> 10]),
   Obj([autoCreate |-> FALSE, autoIndex |-> TRUE, connectTimeoutMS |-> 1000,
        socketTimeoutMS |-> 2000, family |-> 6])}
Errors == {"ECONNREFUSED", "ETIMEDOUT"}

Running == proc.status = "running"

\* the call as the caller sees it: the connection whose settling settles the promise
\* returned, the connection that carries the observers, and the promise
Call(es) ==
  [observed |-> Select(es, "on")[1].conn,
   awaited |-> Select(es, "mongoose.connect")[1].conn,
   promise |-> "pending"]

(* ------------------------------ operations ----------------------------- *)
\* await MonoMongo.exect({database: db, connectOptions: co})
Exect(db, co) ==
  /\ Running
  /\ Len(calls) < MaxCalls
  /\ LET id == Len(conns) + 1
         es == Executed(exect(db, co, id))
     IN /\ Run(Job("exect", db, co, id, "", "", TRUE, <<>>), es, FALSE, conns)
        /\ calls' = Append(calls, Call(es))
  /\ UNCHANGED pathVars

\* MonoMongo.connect(dbpath, option), called directly
Connect(dbpath, option) ==
  /\ Running
  /\ Len(calls) < MaxCalls
  /\ LET id == Len(conns) + 1
         es == Executed(MonoMongo_connect(dbpath, option, id))
     IN /\ Run(Job("connect", Str(dbpath), option, id, "", "", TRUE, <<>>), es, FALSE, conns)
        /\ calls' = Append(calls, Call(es))
  /\ UNCHANGED pathVars

(* ------------- events the external client and the system deliver -------- *)
\* the listeners of event ev on connection id, run as emit runs them; an "error"
\* event nobody listens to is thrown by the emitter itself
Emit(cs, id, ev, err) ==
  IF ev \in cs[id].listeners
  THEN CASE ev = "connected" -> OnConnected(id, cs[id].url)
         [] ev = "error" -> OnError(id, err)
         [] ev = "disconnected" -> OnDisconnected(id)
         [] ev = "open" -> OnOpen(id)
  ELSE IF ev = "error" THEN <<Throw(id, err)>> ELSE <<>>

Deliver(cs, id, ev, err, handled) ==
  /\ Run(Job("event", Undefined, Undefined, id, ev, err, ev \in cs[id].listeners, <<>>),
         Executed(Emit(cs, id, ev, err)), handled, cs)
  /\ UNCHANGED <<calls, pathVars>>

Connected(id) ==
  /\ Running
  /\ conns[id].state = "connecting"
  /\ Deliver([conns EXCEPT ![id].state = "connected"], id, "connected", "", FALSE)

\* "open" follows "connected" while the connection is up
Open(id) ==
  /\ Running
  /\ conns[id].state = "connected"
  /\ Deliver(conns, id, "open", "", FALSE)

Disconnected(id) ==
  /\ Running
  /\ conns[id].state = "connected"
  /\ Deliver([conns EXCEPT ![id].state = "disconnected"], id, "disconnected", "", FALSE)

Error(id, err, handled) ==
  /\ Running
  /\ conns[id].state \in {"connecting", "connected"}
  /\ Deliver(conns, id, "error", err, handled)

\* the default connection, which carries no listener of this program
DefaultEvent(from, to, ev) ==
  /\ Running
  /\ defaultConn.state = from
  /\ defaultConn' = [defaultConn EXCEPT !.state = to]
  /\ lastJob' = Job("event", Undefined, Undefined, 0, ev, "", FALSE, <<>>)
  /\ UNCHANGED <<conns, sigintHandlers, calls, proc, pathVars>>

DefaultConnected == DefaultEvent("connecting", "connected", "connected")

DefaultFailed == DefaultEvent("connecting", "disconnected", "error")

StateOf(id) == IF id = 0 THEN defaultConn.state ELSE conns[id].state

\* the promise of call k settles with the connection it awaits
Settle(k) ==
  /\ Running
  /\ calls[k].promise = "pending"
  /\ StateOf(calls[k].awaited) # "connecting"
  /\ calls' = [calls EXCEPT ![k].promise =
                 IF StateOf(calls[k].awaited) = "connected" THEN "fulfilled" ELSE "rejected"]
  /\ lastJob' = Job("settle", Undefined, Undefined, calls[k].awaited, "", "", FALSE, <<>>)
  /\ UNCHANGED <<conns, defaultConn, sigintHandlers, proc, pathVars>>

RECURSIVE Listeners(_)
\* the SIGINT listeners, one after the other
Listeners(hs) == IF hs = <<>> THEN <<>> ELSE OnSigint(Head(hs)) \o Listeners(Tail(hs))

\* SIGINT reaches the process; without a listener the signal ends it
Sigint ==
  /\ Running
  /\ IF sigintHandlers = <<>>
     THEN /\ proc' = [status |-> "killed", code |-> 130]
          /\ lastJob' = Job("SIGINT", Undefined, Undefined, 0, "SIGINT", "", FALSE, <<>>)
          /\ UNCHANGED <<conns, defaultConn, sigintHandlers>>
     ELSE Run(Job("SIGINT", Undefined, Undefined, Head(sigintHandlers), "SIGINT", "", TRUE, <<>>),
              Executed(Listeners(sigintHandlers)), FALSE, conns)
  /\ UNCHANGED <<calls, pathVars>>

Next ==
  \/ \E db \in Databases, co \in SuppliedOptions \cup {Undefined} : Exect(db, co)
  \/ \E db \in Databases, o \in SuppliedOptions : IsString(db) /\ Connect(db.s, o)
  \/ \E id \in DOMAIN conns : Connected(id)
  \/ \E id \in DOMAIN conns : Open(id)
  \/ \E id \in DOMAIN conns : Disconnected(id)
  \/ \E id \in DOMAIN conns, err \in Errors, handled \in BOOLEAN : Error(id, err, handled)
  \/ DefaultConnected
  \/ DefaultFailed
  \/ \E k \in DOMAIN calls : Settle(k)
  \/ Sigint

Spec == Init /\ [][Next]_vars

(* ----------------------- getDBPath called by itself -------------------- *)
PathInit ==
  /\ database \in PathInputs
  /\ path = NoPath
  /\ LifeInit

\* const dbPath = MonoMongo.getDBPath(database)
GetDBPath ==
  /\ ~path.done
  /\ path' = [done |-> TRUE, value |-> getDBPath(database)]
  /\ UNCHANGED <<database, lifeVars>>

PathNext == GetDBPath

PathSpec == PathInit /\ [][PathNext]_vars

(* ======================= properties of getDBPath ======================= *)
StartsWith(s, p) == Len(s) >= Len(p) /\ SubSeq(s, 1, Len(p)) = p

EndsWith(s, p) == Len(s) >= Len(p) /\ SubSeq(s, Len(s) - Len(p) + 1, Len(s)) = p

\* position of the first c in s at or after from, 0 when there is none
IndexFrom(s, c, from) ==
  IF \E i \in from..Len(s) : s[i] = c
  THEN CHOOSE i \in from..Len(s) : s[i] = c /\ \A j \in from..(i - 1) : s[j] # c
  ELSE 0

UpperHex == (48..57) \cup (65..70)

HexValue(c) == IF c \in 48..57 THEN c - 48 ELSE c - 55

RECURSIVE EscapedForm(_)
\* s is made of unreserved characters and of %XY escapes of octets that are
\* not unreserved characters; no other character stands raw in it
EscapedForm(s) ==
  IF s = <<>> THEN TRUE
  ELSE IF Head(s) = 37
    THEN /\ Len(s) >= 3
         /\ s[2] \in UpperHex
         /\ s[3] \in UpperHex
         /\ (HexValue(s[2]) * 16 + HexValue(s[3])) \notin uriUnreserved
         /\ EscapedForm(SubSeq(s, 4, Len(s)))
  ELSE Head(s) \in uriUnreserved /\ EscapedForm(Tail(s))

RECURSIVE Unescape(_)
\* the octets an escaped form stands for
Unescape(s) ==
  IF s = <<>> THEN <<>>
  ELSE IF Head(s) = 37
    THEN <<HexValue(s[2]) * 16 + HexValue(s[3])>> \o Unescape(SubSeq(s, 4, Len(s)))
  ELSE <<Head(s)>> \o Unescape(Tail(s))

RECURSIVE DecodeUTF8(_)
\* the characters a sequence of UTF-8 octets stands for
DecodeUTF8(b) ==
  IF b = <<>> THEN <<>>
  ELSE IF b[1] < 128 THEN <<b[1]>> \o DecodeUTF8(Tail(b))
  ELSE IF b[1] < 224
    THEN <<(b[1] - 192) * 64 + (b[2] - 128)>> \o DecodeUTF8(SubSeq(b, 3, Len(b)))
  ELSE IF b[1] < 240
    THEN <<(b[1] - 224) * 4096 + (b[2] - 128) * 64 + (b[3] - 128)>>
           \o DecodeUTF8(SubSeq(b, 4, Len(b)))
  ELSE <<(b[1] - 240) * 262144 + (b[2] - 128) * 4096 + (b[3] - 128) * 64 + (b[4] - 128)>>
         \o DecodeUTF8(SubSeq(b, 5, Len(b)))

\* e is the percent-encoding of the text s
Encodes(e, s) == EscapedForm(e) /\ DecodeUTF8(Unescape(e)) = s

\* p reads as a remote URI of the configuration o: after the scheme, up to the
\* first ":" the encoded user name, up to the first "@" the encoded password, then
\* cluster, "/", dbname and the fixed query, verbatim
ReadsAsRemote(p, o) ==
  LET a == Len(SrvScheme)
      i == IndexFrom(p, 58, a + 1)
      j == IndexFrom(p, 64, i + 1)
  IN /\ StartsWith(p, SrvScheme)
     /\ i > 0
     /\ j > 0
     /\ Encodes(SubSeq(p, a + 1, i - 1), o.username.s)
     /\ Encodes(SubSeq(p, i + 1, j - 1), o.password.s)
     /\ SubSeq(p, j + 1, Len(p)) = o.cluster.s \o <<47>> \o o.dbname.s \o SrvQuery

RemoteCall == path.done /\ ~IsString(database) /\ In("cluster", database.o)

\* C1: for every non-string configuration with a `cluster` field, whatever else it
\* carries, getDBPath returns mongodb+srv:// + E(username) + : + E(password) + @ +
\* cluster + / + dbname + ?retryWrites=true&w=majority, E escaping every character
\* outside the unreserved set, so that no reserved character of a credential is raw.
C1_RemotePath == RemoteCall => ReadsAsRemote(path.value, database.o)

\* a remote configuration that also has a hostname, with "@" as its user name
C1_Witness ==
  /\ RemoteCall
  /\ In("hostname", database.o)
  /\ database.o.username.s = <<64>>

RECURSIVE DecimalValue(_)
DecimalValue(ds) ==
  IF ds = <<>> THEN 0 ELSE DecimalValue(SubSeq(ds, 1, Len(ds) - 1)) * 10 + (ds[Len(ds)] - 48)

\* ds is the decimal numeral of n
Numeral(ds, n) ==
  /\ ds # <<>>
  /\ \A k \in DOMAIN ds : ds[k] \in 48..57
  /\ Len(ds) > 1 => ds[1] # 48
  /\ DecimalValue(ds) = n

\* the port the claim expects: the supplied one when present and truthy
ExpectedPort(o) ==
  IF In("port", o) /\ o.port.t = "number" /\ o.port.n # 0 THEN o.port.n ELSE 27017

ReadsAsLocal(p, o) ==
  LET head == LocalScheme \o o.hostname.s \o <<58>>
      tail == <<47>> \o o.dbname.s
  IN /\ StartsWith(p, head)
     /\ EndsWith(p, tail)
     /\ Len(p) > Len(head) + Len(tail)
     /\ Numeral(SubSeq(p, Len(head) + 1, Len(p) - Len(tail)), ExpectedPort(o))

LocalCall == path.done /\ ~IsString(database) /\ ~In("cluster", database.o)

\* C2: for every non-string configuration without a `cluster` field, getDBPath
\* returns mongodb://<hostname>:<port>/<dbname>, <port> being the supplied port when
\* it is present and truthy and 27017 when it is absent or falsy (0 included).
C2_LocalPath == LocalCall => ReadsAsLocal(path.value, database.o)

\* a local configuration whose port is 0
C2_Witness == LocalCall /\ In("port", database.o) /\ database.o.port = Num(0)

(* ===================== properties of the life cycle ==================== *)
\* the calls a job made on the external client to have a connection opened
ClientCalls(es) ==
  SelectSeq(es, LAMBDA e : e.op \in {"createConnection", "mongoose.connect"})

ExectJob == lastJob.kind = "exect"

\* C3: for any string input, the empty string and strings that are no URI included,
\* getDBPath returns the input unchanged and exect passes that same string as the
\* URI to the external client.
C3_StringPassthrough ==
  (ExectJob /\ IsString(lastJob.database)) =>
    /\ ClientCalls(lastJob.effects) # <<>>
    /\ \A k \in DOMAIN ClientCalls(lastJob.effects) :
         ClientCalls(lastJob.effects)[k].uri = lastJob.database.s

\* exect was given a string that is no URI and has a character that escaping changes
C3_Witness ==
  /\ ExectJob
  /\ IsString(lastJob.database)
  /\ \E k \in DOMAIN lastJob.database.s : lastJob.database.s[k] = 32

DefaultFields == {"autoCreate", "autoIndex", "connectTimeoutMS", "socketTimeoutMS", "family"}

\* C4: the options exect hands to the external client are all or nothing: the
\* default set exactly when no connectOptions are supplied, and the supplied object
\* exactly, with no default-only field, when any object (partial or empty) is supplied.
C4_OptionsAllOrNothing ==
  ExectJob =>
    \A k \in DOMAIN ClientCalls(lastJob.effects) :
      LET given == ClientCalls(lastJob.effects)[k].opt
          co == lastJob.connectOptions
      IN /\ given.t = "object"
         /\ co = Undefined =>
              /\ DOMAIN given.o = DefaultFields
              /\ given.o.autoCreate = TRUE
              /\ given.o.autoIndex = FALSE
              /\ given.o.connectTimeoutMS = 30000
              /\ given.o.socketTimeoutMS = 45000
              /\ given.o.family = 4
         /\ co # Undefined =>
              /\ given = co
              /\ (DefaultFields \ DOMAIN co.o) \cap DOMAIN given.o = {}

\* exect was given a partial options object
C4_Witness ==
  /\ ExectJob
  /\ lastJob.connectOptions # Undefined
  /\ DOMAIN lastJob.connectOptions.o = {"autoIndex"}
  /\ ClientCalls(lastJob.effects) # <<>>

ErrorJob == lastJob.kind = "event" /\ lastJob.ev = "error" /\ lastJob.conn >= 1

\* C5: when an `error` event is delivered on the observed connection, the observer
\* first logs the error, then rethrows that same error to the emitter; it is never
\* swallowed and no new connection attempt is made in response.
C5_ErrorRethrown ==
  ErrorJob =>
    /\ lastJob.observed
    /\ Len(lastJob.effects) = 2
    /\ lastJob.effects[1].op = "console.error"
    /\ lastJob.effects[1].err = lastJob.err
    /\ lastJob.effects[2].op = "throw"
    /\ lastJob.effects[2].err = lastJob.err
    /\ ClientCalls(lastJob.effects) = <<>>

\* an error was delivered on the second connection and ended the process
C5_Witness == ErrorJob /\ lastJob.conn = 2 /\ proc.status = "crashed"

SigintJob == lastJob.kind = "SIGINT" /\ calls # <<>>

C7_ExactlyOneHandler == calls # <<>> => Len(sigintHandlers) = 1

\* C7, amended: every MonoConnect construction, so every connect or exect
\* invocation, registers one more SIGINT handler: after n of them there are n
\* handlers, each closing the connection of its own invocation.
C7_OneHandlerPerCall ==
  /\ Len(sigintHandlers) = Len(calls)
  /\ \A k \in DOMAIN calls : sigintHandlers[k] = calls[k].observed

\* two invocations have been made
C7_Witness == Len(calls) = 2 /\ Len(sigintHandlers) = 2

ObservedEvents == {"connected", "error", "disconnected", "open"}

\* C8: in every connect invocation the five observers are registered in the same
\* synchronous step that creates the connection object and before the top-level
\* connect call is issued, so no lifecycle event of that connection is delivered
\* while its observer is missing.
C8_ObserversBeforeConnect ==
  /\ lastJob.kind \in {"exect", "connect"} =>
       LET es == lastJob.effects
           made == IndexFrom([i \in DOMAIN es |-> es[i].op], "createConnection", 1)
           asked == IndexFrom([i \in DOMAIN es |-> es[i].op], "mongoose.connect", 1)
       IN /\ made = 1
          /\ asked = Len(es)
          /\ \A ev \in ObservedEvents :
               \E i \in (made + 1)..(asked - 1) :
                 es[i].op = "on" /\ es[i].ev = ev /\ es[i].conn = es[made].conn
          /\ \E i \in (made + 1)..(asked - 1) :
               es[i].op = "process.on" /\ es[i].ev = "SIGINT" /\ es[i].conn = es[made].conn
  /\ \A id \in DOMAIN conns :
       /\ conns[id].listeners = ObservedEvents
       /\ \E i \in DOMAIN sigintHandlers : sigintHandlers[i] = id
  /\ (lastJob.kind = "event" /\ lastJob.conn >= 1) => lastJob.observed

\* the first lifecycle event of the second connection has been delivered
C8_Witness ==
  /\ lastJob.kind = "event"
  /\ lastJob.ev = "connected"
  /\ lastJob.conn = 2
  /\ lastJob.observed

\* the connections the external client has been made to open
ConnectionsOpened == Len(conns) + (IF defaultConn.connectCalls > 0 THEN 1 ELSE 0)

\* C9: each call of MonoMongo.connect (so each call of exect) makes the external
\* client open exactly one connection: after n invocations, n connections.
C9_OneConnectionPerCall == ConnectionsOpened = Len(calls)

\* C10: the connection that carries the observers and that the termination handler
\* closes is the connection whose establishment resolves the promise returned.
C10_ObservedIsAwaited ==
  \A k \in DOMAIN calls :
    /\ calls[k].awaited = calls[k].observed
    /\ calls[k].promise = "fulfilled" => conns[calls[k].observed].state # "connecting"

====
